---- MODULE Spec2Model ----
(***************************************************************************)
(* Frank Energie data-update coordinator (coordinator.py).                 *)
(*                                                                         *)
(* One refresh cycle (_async_update_data) is a sequence of suspension      *)
(* points: two price windows through __fetch_prices_with_fallback, the     *)
(* month summary, the invoices, then either the returned snapshot or one   *)
(* of the except clauses, the AuthException clause going through           *)
(* __try_renew_token.  The API client and the host are the environment:    *)
(* every API call either returns data or raises a RequestException or an   *)
(* AuthException; the host stores a returned snapshot in self.data and     *)
(* leaves self.data alone when the cycle raises.                           *)
(***************************************************************************)
EXTENDS Integers, Sequences, FiniteSets, TLC

\* ---------------------------------------------------------------- bounds
MaxCycles == 2      \* refresh cycles started in one behaviour
MaxTime == 1        \* last instant of the clock
SlotsPerDay == 1    \* price entries (instants) per day

\* ------------------------------------------------------------- constants
DATA_ELECTRICITY == "electricity"
DATA_GAS == "gas"
DATA_MONTH_SUMMARY == "month_summary"
DATA_INVOICES == "invoices"
CONF_ACCESS_TOKEN == "access_token"
CONF_TOKEN == "token"
SITE_REFERENCE == "site_reference"

\* str(ex).startswith("user-error:"): the tag, character by character
UserErrorTag == <<"u", "s", "e", "r", "-", "e", "r", "r", "o", "r", ":">>

\* str.startswith taken for equality
StartsWithExact(s, p) == s = p

\* str.startswith
StartsWith(s, p) == Len(s) >= Len(p) /\ SubSeq(s, 1, Len(p)) = p

\* ------------------------------------------------------------ data model
None == [type |-> "None"]
NoExc == [kind |-> "none", msg |-> <<>>]
NoPrices == [electricity |-> <<>>, gas |-> <<>>]
NoTokens == [authToken |-> "None", refreshToken |-> "None"]
NoWindow == [start |-> -1, end |-> -1, user |-> NoPrices, public |-> NoPrices, calls |-> <<>>]

\* messages an exception of the API client can carry
Messages ==
    { UserErrorTag,
      UserErrorTag \o <<"x">>,
      <<"x">> \o UserErrorTag,
      <<"u", "s", "e", "r">> }

RequestExceptions == [kind : {"RequestException"}, msg : Messages]
AuthExceptions == [kind : {"AuthException"}, msg : {<<"e", "x", "p">>}]
ApiExceptions == RequestExceptions \cup AuthExceptions

\* PriceData of one commodity for the day d, as answered in cycle c by the
\* source s ("user" or "public")
Series(d, s, c) ==
    [i \in 1..SlotsPerDay |-> [from |-> d * SlotsPerDay + i - 1, src |-> s, cyc |-> c]]

SeriesReplies(d, s, c) == {<<>>, Series(d, s, c)}

\* MarketPrices
MarketPricesReplies(d, s, c) ==
    [electricity : SeriesReplies(d, s, c), gas : SeriesReplies(d, s, c)]

\* an API call returns a value or raises
Returns(vals) == [exc : {NoExc}, val : vals]
Raises == [exc : ApiExceptions, val : {None}]

\* PriceData.get_future_prices at instant t
get_future_prices(series, t) ==
    SelectSeq(series, LAMBDA p : p.from > t)

\* the token pairs renew_token can answer
TokenPairs == [authToken : {"t1"}, refreshToken : {"r1"}]

VARIABLES
    now,                 \* the clock (datetime.utcnow)
    is_authenticated,    \* api.is_authenticated
    entryData,           \* entry.data, the config entry's stored mapping
    site_reference,      \* self.site_reference
    data,                \* self.data, the cached snapshot
    pc,                  \* position of the refresh cycle
    cycle,               \* number of cycles started
    today,               \* local of the cycle
    prices_today,        \* local of the cycle
    prices_tomorrow,     \* local of the cycle
    data_month_summary,  \* local of the cycle
    data_invoices,       \* local of the cycle
    window,              \* the __fetch_prices_with_fallback call that has just ended: arguments and what the API answered
    exc,                 \* exception raised in the try body of the cycle
    calls,               \* API calls of the cycle, in order
    windows,             \* (start_date, end_date) of the fallback calls of the cycle, in order
    renewal,             \* how renew_token ended in the cycle
    updated_tokens,      \* local of __try_renew_token
    outcome              \* how the last cycle ended

vars == <<now, is_authenticated, entryData, site_reference, data, pc, cycle, today,
          prices_today, prices_tomorrow, data_month_summary, data_invoices, window,
          exc, calls, windows, renewal, updated_tokens, outcome>>

locals == <<today, prices_today, prices_tomorrow, data_month_summary, data_invoices,
            window, exc, calls, windows, renewal, updated_tokens>>

tomorrow == today + 1
day_after_tomorrow == today + 2

\* the config entry the coordinator is constructed with
InitEntry(auth) ==
    IF auth
    THEN (CONF_ACCESS_TOKEN :> "t0") @@ (CONF_TOKEN :> "r0") @@ (SITE_REFERENCE :> "site")
    ELSE (SITE_REFERENCE :> "None")

Init ==
    /\ now = 0
    /\ is_authenticated \in BOOLEAN
    /\ entryData = InitEntry(is_authenticated)
    /\ site_reference = entryData[SITE_REFERENCE]
    /\ data = None
    /\ pc = "idle"
    /\ cycle = 0
    /\ today = 0
    /\ prices_today = NoPrices
    /\ prices_tomorrow = NoPrices
    /\ data_month_summary = None
    /\ data_invoices = None
    /\ window = NoWindow
    /\ exc = NoExc
    /\ calls = <<>>
    /\ windows = <<>>
    /\ renewal = "none"
    /\ updated_tokens = NoTokens
    /\ outcome = "none"

\* time passes; the cycle reads the clock when it starts (line 56) and in
\* the except clause (lines 75-76), so the clock moves before these two
Tick ==
    /\ pc \in {"idle", "except"}
    /\ now < MaxTime
    /\ now' = now + 1
    /\ UNCHANGED <<is_authenticated, entryData, site_reference, data, pc, cycle, outcome>>
    /\ UNCHANGED locals

\* the host calls _async_update_data; at most one cycle is in flight
StartCycle ==
    /\ pc = "idle"
    /\ cycle < MaxCycles
    /\ cycle' = cycle + 1
    /\ today' = now \div SlotsPerDay
    /\ prices_today' = NoPrices
    /\ prices_tomorrow' = NoPrices
    /\ data_month_summary' = None
    /\ data_invoices' = None
    /\ window' = NoWindow
    /\ exc' = NoExc
    /\ calls' = <<>>
    /\ windows' = <<>>
    /\ renewal' = "none"
    /\ updated_tokens' = NoTokens
    /\ outcome' = "none"
    /\ pc' = "today"
    /\ UNCHANGED <<now, is_authenticated, entryData, site_reference, data>>

\* ------------------------------------------------- the fallback procedure
\* No except clause reads a local of the try body: when a fetch raises, the
\* results of the earlier fetches of the cycle are dropped, and the model
\* forgets them in the same step.  `window` describes a fallback call until
\* the next fetch of the cycle.
PricesCall(start, end) == [fn |-> "prices", start |-> start, end |-> end]
UserPricesCall(start, site) == [fn |-> "user_prices", start |-> start, site |-> site]
SiteCall(fn, site) == [fn |-> fn, site |-> site]

\* lines 114-121 with both substitutions made whenever either series is empty
SubstituteBoth(user, public) ==
    [electricity |-> public.electricity, gas |-> public.gas]

\* lines 114-121: a user series that is empty is replaced by the public one
Substitute(user, public) ==
    [electricity |-> IF Len(user.electricity) = 0 THEN public.electricity ELSE user.electricity,
     gas |-> IF Len(user.gas) = 0 THEN public.gas ELSE user.gas]

\* __fetch_prices_with_fallback with the public prices fetched for every
\* window of an authenticated session
FetchAlwaysPublic(auth, site, start, end, userReply, publicReply) ==
    IF ~auth
    THEN [exc |-> publicReply.exc,
          val |-> IF publicReply.exc = NoExc THEN publicReply.val ELSE NoPrices,
          calls |-> <<PricesCall(start, end)>>]
    ELSE IF userReply.exc # NoExc
    THEN [exc |-> userReply.exc, val |-> NoPrices,
          calls |-> <<UserPricesCall(start, site)>>]
    ELSE IF publicReply.exc # NoExc
    THEN [exc |-> publicReply.exc, val |-> NoPrices,
          calls |-> <<UserPricesCall(start, site), PricesCall(start, end)>>]
    ELSE [exc |-> NoExc, val |-> Substitute(userReply.val, publicReply.val),
          calls |-> <<UserPricesCall(start, site), PricesCall(start, end)>>]

\* __fetch_prices_with_fallback(start_date, end_date); userReply and
\* publicReply are what api.user_prices and api.prices answer when called
FetchPricesWithFallback(auth, site, start, end, userReply, publicReply) ==
    IF ~auth
    THEN [exc |-> publicReply.exc,
          val |-> IF publicReply.exc = NoExc THEN publicReply.val ELSE NoPrices,
          calls |-> <<PricesCall(start, end)>>]
    ELSE IF userReply.exc # NoExc
    THEN [exc |-> userReply.exc, val |-> NoPrices,
          calls |-> <<UserPricesCall(start, site)>>]
    ELSE IF Len(userReply.val.gas) > 0 /\ Len(userReply.val.electricity) > 0
    THEN [exc |-> NoExc, val |-> userReply.val,
          calls |-> <<UserPricesCall(start, site)>>]
    ELSE IF publicReply.exc # NoExc
    THEN [exc |-> publicReply.exc, val |-> NoPrices,
          calls |-> <<UserPricesCall(start, site), PricesCall(start, end)>>]
    ELSE [exc |-> NoExc, val |-> Substitute(userReply.val, publicReply.val),
          calls |-> <<UserPricesCall(start, site), PricesCall(start, end)>>]

\* what the API answered in a fallback call: the replies of the calls made
WindowOf(start, end, r, userReply, publicReply) ==
    LET fns == {r.calls[i].fn : i \in 1..Len(r.calls)}
    IN [start |-> start, end |-> end,
        user |-> IF "user_prices" \in fns /\ userReply.exc = NoExc THEN userReply.val ELSE NoPrices,
        public |-> IF "prices" \in fns /\ publicReply.exc = NoExc THEN publicReply.val ELSE NoPrices,
        calls |-> r.calls]

PriceReplies(d, s, c) == Returns(MarketPricesReplies(d, s, c)) \cup Raises

\* a call that is not made has no reply
NoReply == [exc |-> NoExc, val |-> NoPrices]

\* the replies of api.user_prices, called in an authenticated session
UserPricesReplies(auth, d, c) ==
    IF auth THEN PriceReplies(d, "user", c) ELSE {NoReply}

\* the replies of api.prices, called in an unauthenticated session and when
\* user_prices returned an empty series
PublicPricesReplies(auth, userReply, d, c) ==
    IF \/ ~auth
       \/ /\ userReply.exc = NoExc
          /\ (Len(userReply.val.gas) = 0 \/ Len(userReply.val.electricity) = 0)
    THEN PriceReplies(d, "public", c)
    ELSE {NoReply}

\* line 63: prices_today = await self.__fetch_prices_with_fallback(today, tomorrow)
FetchToday ==
    /\ pc = "today"
    /\ \E userReply \in UserPricesReplies(is_authenticated, today, cycle) :
       \E publicReply \in PublicPricesReplies(is_authenticated, userReply, today, cycle) :
         LET r == FetchPricesWithFallback(is_authenticated, site_reference,
                                          today, tomorrow, userReply, publicReply)
         IN /\ calls' = calls \o r.calls
            /\ windows' = Append(windows, <<today, tomorrow>>)
            /\ window' = WindowOf(today, tomorrow, r, userReply, publicReply)
            /\ exc' = r.exc
            /\ prices_today' = r.val
            /\ pc' = IF r.exc = NoExc THEN "tomorrow" ELSE "except"
    /\ UNCHANGED <<now, is_authenticated, entryData, site_reference, data, cycle, today,
                   prices_tomorrow, data_month_summary, data_invoices, renewal,
                   updated_tokens, outcome>>

\* line 64: prices_tomorrow = await self.__fetch_prices_with_fallback(tomorrow, day_after_tomorrow)
FetchTomorrow ==
    /\ pc = "tomorrow"
    /\ \E userReply \in UserPricesReplies(is_authenticated, tomorrow, cycle) :
       \E publicReply \in PublicPricesReplies(is_authenticated, userReply, tomorrow, cycle) :
         LET r == FetchPricesWithFallback(is_authenticated, site_reference,
                                          tomorrow, day_after_tomorrow, userReply, publicReply)
         IN /\ calls' = calls \o r.calls
            /\ windows' = Append(windows, <<tomorrow, day_after_tomorrow>>)
            /\ window' = WindowOf(tomorrow, day_after_tomorrow, r, userReply, publicReply)
            /\ exc' = r.exc
            /\ prices_tomorrow' = r.val
            /\ prices_today' = IF r.exc = NoExc THEN prices_today ELSE NoPrices
            /\ pc' = IF r.exc = NoExc THEN "month" ELSE "except"
    /\ UNCHANGED <<now, is_authenticated, entryData, site_reference, data, cycle, today,
                   data_month_summary, data_invoices, renewal, updated_tokens, outcome>>

\* `await call if self.api.is_authenticated else None` without the condition
FetchUnconditionally(auth, call, reply) ==
    [exc |-> reply.exc,
     val |-> IF reply.exc = NoExc THEN reply.val ELSE None,
     calls |-> <<call>>]

\* lines 66-71: `await call if self.api.is_authenticated else None`
FetchIfAuthenticated(auth, call, reply) ==
    IF auth
    THEN [exc |-> reply.exc,
          val |-> IF reply.exc = NoExc THEN reply.val ELSE None,
          calls |-> <<call>>]
    ELSE [exc |-> NoExc, val |-> None, calls |-> <<>>]

\* MonthSummary and Invoices as answered in cycle c
MonthSummaryReplies(c) == Returns({[type |-> "MonthSummary", cyc |-> c]}) \cup Raises
InvoicesReplies(c) == Returns({[type |-> "Invoices", cyc |-> c]}) \cup Raises

\* lines 66-68: data_month_summary
FetchMonthSummary ==
    /\ pc = "month"
    /\ \E reply \in MonthSummaryReplies(cycle) :
         LET r == FetchIfAuthenticated(is_authenticated,
                                       SiteCall("month_summary", site_reference), reply)
         IN /\ calls' = calls \o r.calls
            /\ exc' = r.exc
            /\ data_month_summary' = r.val
            /\ prices_today' = IF r.exc = NoExc THEN prices_today ELSE NoPrices
            /\ prices_tomorrow' = IF r.exc = NoExc THEN prices_tomorrow ELSE NoPrices
            /\ window' = NoWindow
            /\ pc' = IF r.exc = NoExc THEN "invoices" ELSE "except"
    /\ UNCHANGED <<now, is_authenticated, entryData, site_reference, data, cycle, today,
                   data_invoices, windows, renewal, updated_tokens, outcome>>

\* lines 69-71: data_invoices
FetchInvoices ==
    /\ pc = "invoices"
    /\ \E reply \in InvoicesReplies(cycle) :
         LET r == FetchIfAuthenticated(is_authenticated,
                                       SiteCall("invoices", site_reference), reply)
         IN /\ calls' = calls \o r.calls
            /\ exc' = r.exc
            /\ data_invoices' = r.val
            /\ prices_today' = IF r.exc = NoExc THEN prices_today ELSE NoPrices
            /\ prices_tomorrow' = IF r.exc = NoExc THEN prices_tomorrow ELSE NoPrices
            /\ data_month_summary' = IF r.exc = NoExc THEN data_month_summary ELSE None
            /\ window' = IF r.exc = NoExc THEN window ELSE NoWindow
            /\ pc' = IF r.exc = NoExc THEN "return" ELSE "except"
    /\ UNCHANGED <<now, is_authenticated, entryData, site_reference, data, cycle, today,
                   windows, renewal, updated_tokens, outcome>>

\* ------------------------------------------------------ end of the cycle
Returned(v) == [do |-> "return", val |-> v, kind |-> "returned"]
Raised(k) == [do |-> "raise", val |-> None, kind |-> k]
Renew == [do |-> "renew", val |-> None, kind |-> "AuthException"]

\* the condition of lines 74-77 on the cached snapshot d at instant t
HasFuturePrices(d, t) ==
    /\ Len(get_future_prices(d[DATA_ELECTRICITY], t)) > 0
    /\ Len(get_future_prices(d[DATA_GAS], t)) > 0

\* lines 94-99 with the two days concatenated the wrong way round
SnapshotSwapped(pt, pm, ms, inv) ==
    (DATA_ELECTRICITY :> (pm.electricity \o pt.electricity))
    @@ (DATA_GAS :> (pm.gas \o pt.gas))
    @@ (DATA_MONTH_SUMMARY :> ms)
    @@ (DATA_INVOICES :> inv)

\* lines 94-99 without the invoices entry
SnapshotNoInvoices(pt, pm, ms, inv) ==
    (DATA_ELECTRICITY :> (pt.electricity \o pm.electricity))
    @@ (DATA_GAS :> (pt.gas \o pm.gas))
    @@ (DATA_MONTH_SUMMARY :> ms)

\* lines 94-99: the returned FrankEnergieData
Snapshot(pt, pm, ms, inv) ==
    (DATA_ELECTRICITY :> (pt.electricity \o pm.electricity))
    @@ (DATA_GAS :> (pt.gas \o pm.gas))
    @@ (DATA_MONTH_SUMMARY :> ms)
    @@ (DATA_INVOICES :> inv)

\* lines 94-99: the try body ended without an exception
Return ==
    /\ pc = "return"
    /\ data' = Snapshot(prices_today, prices_tomorrow, data_month_summary, data_invoices)
    /\ outcome' = "returned"
    /\ pc' = "idle"
    /\ UNCHANGED <<now, is_authenticated, entryData, site_reference, cycle>>
    /\ UNCHANGED locals

\* the except clauses with the RequestException re-raised as it is
ExceptClauseUnwrapped(e, d, t) ==
    IF e.kind = "UpdateFailed"
    THEN IF d = None THEN Raised("TypeError")
         ELSE IF HasFuturePrices(d, t) THEN Returned(d) ELSE Raised("UpdateFailed")
    ELSE IF e.kind = "RequestException"
    THEN IF StartsWith(e.msg, UserErrorTag)
         THEN Raised("ConfigEntryAuthFailed")
         ELSE Raised("RequestException")
    ELSE IF e.kind = "AuthException" THEN Renew
    ELSE Raised(e.kind)

\* the except clauses with the AuthException clause raising UpdateFailed at once
ExceptClauseNoRenewal(e, d, t) ==
    IF e.kind = "UpdateFailed"
    THEN IF d = None THEN Raised("TypeError")
         ELSE IF HasFuturePrices(d, t) THEN Returned(d) ELSE Raised("UpdateFailed")
    ELSE IF e.kind = "RequestException"
    THEN IF StartsWith(e.msg, UserErrorTag)
         THEN Raised("ConfigEntryAuthFailed")
         ELSE Raised("UpdateFailed")
    ELSE IF e.kind = "AuthException" THEN Raised("UpdateFailed")
    ELSE Raised(e.kind)

\* the except clauses with the AuthException absorbed: the cached snapshot
\* is returned and no renewal is attempted
ExceptClauseAbsorbsAuth(e, d, t) ==
    IF e.kind = "UpdateFailed"
    THEN IF d = None THEN Raised("TypeError")
         ELSE IF HasFuturePrices(d, t) THEN Returned(d) ELSE Raised("UpdateFailed")
    ELSE IF e.kind = "RequestException"
    THEN IF StartsWith(e.msg, UserErrorTag)
         THEN Raised("ConfigEntryAuthFailed")
         ELSE Raised("UpdateFailed")
    ELSE IF e.kind = "AuthException" THEN Returned(d)
    ELSE Raised(e.kind)

\* the except clauses with a renewal attempted after a generic
\* RequestException as well
ExceptClauseRenewOnRequest(e, d, t) ==
    IF e.kind = "UpdateFailed"
    THEN IF d = None THEN Raised("TypeError")
         ELSE IF HasFuturePrices(d, t) THEN Returned(d) ELSE Raised("UpdateFailed")
    ELSE IF e.kind = "RequestException"
    THEN IF StartsWith(e.msg, UserErrorTag)
         THEN Raised("ConfigEntryAuthFailed")
         ELSE Renew
    ELSE IF e.kind = "AuthException" THEN Renew
    ELSE Raised(e.kind)

\* lines 72-92: the except clause that matches the exception e of the try
\* body, with the cached snapshot d at instant t.  The clauses are tried in
\* order: UpdateFailed, RequestException, AuthException.
ExceptClause(e, d, t) ==
    IF e.kind = "UpdateFailed"
    THEN IF d = None THEN Raised("TypeError")
         ELSE IF HasFuturePrices(d, t) THEN Returned(d) ELSE Raised("UpdateFailed")
    ELSE IF e.kind = "RequestException"
    THEN IF StartsWith(e.msg, UserErrorTag)
         THEN Raised("ConfigEntryAuthFailed")
         ELSE Raised("UpdateFailed")
    ELSE IF e.kind = "AuthException" THEN Renew
    ELSE Raised(e.kind)

\* the except clauses with the cached snapshot dropped when the cycle raises
ExceptDropsSnapshot ==
    /\ pc = "except"
    /\ LET h == ExceptClause(exc, data, now)
       IN /\ pc' = IF h.do = "renew" THEN "renew" ELSE "idle"
          /\ outcome' = IF h.do = "renew" THEN outcome ELSE h.kind
          /\ data' = IF h.do = "return" THEN h.val ELSE None
    /\ UNCHANGED <<now, is_authenticated, entryData, site_reference, cycle>>
    /\ UNCHANGED locals

\* lines 72-92: the try body raised
Except ==
    /\ pc = "except"
    /\ LET h == ExceptClause(exc, data, now)
       IN /\ pc' = IF h.do = "renew" THEN "renew" ELSE "idle"
          /\ outcome' = IF h.do = "renew" THEN outcome ELSE h.kind
          /\ data' = IF h.do = "return" THEN h.val ELSE data
    /\ UNCHANGED <<now, is_authenticated, entryData, site_reference, cycle>>
    /\ UNCHANGED locals

RenewTokenCall == [fn |-> "renew_token"]
RenewTokenReplies == Returns(TokenPairs) \cup Raises

\* __try_renew_token with the AuthException only logged
TryRenewTokenSwallow(entry, reply) ==
    IF reply.exc = NoExc
    THEN [entry |-> (CONF_ACCESS_TOKEN :> reply.val.authToken)
                    @@ (CONF_TOKEN :> reply.val.refreshToken),
          tokens |-> reply.val, renewal |-> "ok", raised |-> "none"]
    ELSE IF reply.exc.kind = "AuthException"
    THEN [entry |-> entry, tokens |-> NoTokens, renewal |-> "AuthException",
          raised |-> "none"]
    ELSE [entry |-> entry, tokens |-> NoTokens, renewal |-> reply.exc.kind,
          raised |-> reply.exc.kind]

\* __try_renew_token with the two tokens stored under each other's key
TryRenewTokenSwapped(entry, reply) ==
    IF reply.exc = NoExc
    THEN [entry |-> (CONF_ACCESS_TOKEN :> reply.val.refreshToken)
                    @@ (CONF_TOKEN :> reply.val.authToken),
          tokens |-> reply.val, renewal |-> "ok", raised |-> "none"]
    ELSE IF reply.exc.kind = "AuthException"
    THEN [entry |-> entry, tokens |-> NoTokens, renewal |-> "AuthException",
          raised |-> "ConfigEntryAuthFailed"]
    ELSE [entry |-> entry, tokens |-> NoTokens, renewal |-> reply.exc.kind,
          raised |-> reply.exc.kind]

\* __try_renew_token with the stored tokens removed when the renewal fails
TryRenewTokenClearsOnFailure(entry, reply) ==
    IF reply.exc = NoExc
    THEN [entry |-> (CONF_ACCESS_TOKEN :> reply.val.authToken)
                    @@ (CONF_TOKEN :> reply.val.refreshToken),
          tokens |-> reply.val, renewal |-> "ok", raised |-> "none"]
    ELSE IF reply.exc.kind = "AuthException"
    THEN [entry |-> (CONF_ACCESS_TOKEN :> "None") @@ (CONF_TOKEN :> "None"),
          tokens |-> NoTokens, renewal |-> "AuthException",
          raised |-> "ConfigEntryAuthFailed"]
    ELSE [entry |-> entry, tokens |-> NoTokens, renewal |-> reply.exc.kind,
          raised |-> reply.exc.kind]

\* __try_renew_token, lines 124-139: async_update_entry(entry, data=data)
\* makes the new mapping the entry's data; an exception of renew_token other
\* than AuthException is not caught
try_renew_token(entry, reply) ==
    IF reply.exc = NoExc
    THEN [entry |-> (CONF_ACCESS_TOKEN :> reply.val.authToken)
                    @@ (CONF_TOKEN :> reply.val.refreshToken),
          tokens |-> reply.val, renewal |-> "ok", raised |-> "none"]
    ELSE IF reply.exc.kind = "AuthException"
    THEN [entry |-> entry, tokens |-> NoTokens, renewal |-> "AuthException",
          raised |-> "ConfigEntryAuthFailed"]
    ELSE [entry |-> entry, tokens |-> NoTokens, renewal |-> reply.exc.kind,
          raised |-> reply.exc.kind]

\* lines 88-92: the AuthException clause
TryRenewToken ==
    /\ pc = "renew"
    /\ \E reply \in RenewTokenReplies :
         LET r == try_renew_token(entryData, reply)
         IN /\ calls' = Append(calls, RenewTokenCall)
            /\ entryData' = r.entry
            /\ updated_tokens' = r.tokens
            /\ renewal' = r.renewal
            /\ outcome' = IF r.raised = "none" THEN "UpdateFailed" ELSE r.raised
    /\ pc' = "idle"
    /\ UNCHANGED <<now, is_authenticated, site_reference, data, cycle, today,
                   prices_today, prices_tomorrow, data_month_summary, data_invoices,
                   window, exc, windows>>

Next ==
    \/ Tick
    \/ StartCycle
    \/ FetchToday
    \/ FetchTomorrow
    \/ FetchMonthSummary
    \/ FetchInvoices
    \/ Return
    \/ Except
    \/ TryRenewToken

Spec == Init /\ [][Next]_vars

\* ================================================================ claims
\* the messages of Messages that begin with "user-error:" and the others
TaggedMessages == {UserErrorTag, UserErrorTag \o <<"x">>}
GenericMessages == Messages \ TaggedMessages

IsGenericRequest(e) == e.kind = "RequestException" /\ e.msg \in GenericMessages
IsTaggedRequest(e) == e.kind = "RequestException" /\ e.msg \in TaggedMessages

\* the snapshot d holds a price later than t for electricity and for gas
FutureBoth(d, t) ==
    /\ d # None
    /\ \E i \in DOMAIN d.electricity : d.electricity[i].from > t
    /\ \E i \in DOMAIN d.gas : d.gas[i].from > t

RenewCalled == Len(calls) > 0 /\ calls[Len(calls)].fn = "renew_token"

\* C1: an except step for a generic RequestException taken while the cached
\* snapshot has a future price for electricity and for gas returns the
\* cached snapshot and leaves it unchanged.
C1_StaleSnapshotServed ==
    [][(pc = "except" /\ pc' = "idle" /\ IsGenericRequest(exc) /\ FutureBoth(data, now))
         => (outcome' = "returned" /\ data' = data)]_vars

\* C2: an except step for a generic RequestException taken while the cached
\* snapshot is absent or has no future price for one of the commodities
\* ends the cycle with UpdateFailed.
C2_GenericFailureWithoutFuture ==
    [][(pc = "except" /\ pc' = "idle" /\ IsGenericRequest(exc) /\ ~FutureBoth(data, now))
         => outcome' = "UpdateFailed"]_vars

C2_Witness ==
    /\ pc = "idle" /\ cycle = 1 /\ data = None
    /\ IsGenericRequest(exc)
    /\ outcome = "UpdateFailed"

\* C3: a cycle whose fetch raised a RequestException tagged "user-error:"
\* has ended with ConfigEntryAuthFailed, whatever the cached snapshot holds.
C3_TaggedFailureEscalates ==
    (pc = "idle" /\ IsTaggedRequest(exc)) => outcome = "ConfigEntryAuthFailed"

C3_Witness ==
    /\ pc = "idle" /\ IsTaggedRequest(exc) /\ exc.msg # UserErrorTag
    /\ FutureBoth(data, now)
    /\ outcome = "ConfigEntryAuthFailed"

\* C4 as stated: a cycle whose fetch raised an AuthException has called
\* renew_token and has ended with UpdateFailed, however the renewal ended.
C4_Original ==
    (pc = "idle" /\ exc.kind = "AuthException")
        => (RenewCalled /\ outcome = "UpdateFailed")

\* C4 amended: a cycle whose fetch raised an AuthException has called
\* renew_token as its last API call; it has ended with UpdateFailed when the
\* renewal succeeded and with ConfigEntryAuthFailed when renew_token raised
\* an AuthException.
C4_RenewalThenFailure ==
    (pc = "idle" /\ exc.kind = "AuthException")
        => /\ RenewCalled
           /\ renewal = "ok" => outcome = "UpdateFailed"
           /\ renewal = "AuthException" => outcome = "ConfigEntryAuthFailed"

C4_Witness ==
    /\ pc = "idle" /\ exc.kind = "AuthException"
    /\ RenewCalled /\ renewal = "ok"
    /\ outcome = "UpdateFailed"

\* C5: a cycle in which renew_token raised an AuthException has ended with
\* ConfigEntryAuthFailed.
C5_FailedRenewalEscalates ==
    (pc = "idle" /\ renewal = "AuthException") => outcome = "ConfigEntryAuthFailed"

C5_Witness ==
    /\ pc = "idle" /\ renewal = "AuthException" /\ RenewCalled
    /\ outcome = "ConfigEntryAuthFailed"

\* C6: after a cycle in which renew_token succeeded, the config entry holds
\* the access token and the refresh token renew_token returned, and the
\* cycle has not ended with ConfigEntryAuthFailed.
C6_RenewedTokensStored ==
    (pc = "idle" /\ renewal = "ok")
        => /\ {CONF_ACCESS_TOKEN, CONF_TOKEN} \subseteq DOMAIN entryData
           /\ updated_tokens \in TokenPairs
           /\ entryData[CONF_ACCESS_TOKEN] = updated_tokens.authToken
           /\ entryData[CONF_TOKEN] = updated_tokens.refreshToken
           /\ outcome # "ConfigEntryAuthFailed"

C6_Witness ==
    /\ pc = "idle" /\ renewal = "ok"
    /\ entryData[CONF_ACCESS_TOKEN] = "t1"
    /\ entryData[CONF_TOKEN] = "r1"

SnapshotKeys == {DATA_ELECTRICITY, DATA_GAS, DATA_MONTH_SUMMARY, DATA_INVOICES}

\* every part of the snapshot d was fetched in the cycle c
FromCycle(d, c) ==
    /\ \A i \in DOMAIN d[DATA_ELECTRICITY] : d[DATA_ELECTRICITY][i].cyc = c
    /\ \A i \in DOMAIN d[DATA_GAS] : d[DATA_GAS][i].cyc = c
    /\ d[DATA_MONTH_SUMMARY] # None => d[DATA_MONTH_SUMMARY].cyc = c
    /\ d[DATA_INVOICES] # None => d[DATA_INVOICES].cyc = c

\* the snapshot d has the four fields, all of them from one cycle
CompleteSingleCycle(d) ==
    /\ DOMAIN d = SnapshotKeys
    /\ \E c \in 1..cycle : FromCycle(d, c)

\* C7: the cached snapshot, absent at first, is never absent again once
\* present; a step that changes it is the return of a cycle and stores the
\* complete four-field result of that one cycle, so that the snapshot is at
\* all times absent or the whole result of a single cycle.
C7_SnapshotWhole ==
    [][/\ data # None => data' # None
       /\ data' # data
             => /\ pc = "return"
                /\ CompleteSingleCycle(data)'
                /\ FromCycle(data', cycle)
      ]_vars

C7_Witness ==
    /\ pc = "idle" /\ cycle = 2
    /\ outcome \in {"UpdateFailed", "ConfigEntryAuthFailed"}
    /\ data # None
    /\ Len(data[DATA_ELECTRICITY]) > 0 /\ Len(data[DATA_GAS]) > 0
    /\ data[DATA_MONTH_SUMMARY] # None /\ data[DATA_INVOICES] # None
    /\ FromCycle(data, 1)

\* the result of the fallback call whose replies `window` holds
WindowResult == IF pc = "tomorrow" THEN prices_today ELSE prices_tomorrow
AfterFallback == pc \in {"tomorrow", "month"}

\* C8: after a fallback call of an authenticated session, the returned gas
\* series is the public one iff the user gas series was empty and is the
\* fetched user series otherwise; likewise for electricity.
C8_PerCommoditySubstitution ==
    (is_authenticated /\ AfterFallback)
        => /\ (WindowResult.gas = window.public.gas) <=> (Len(window.user.gas) = 0)
           /\ Len(window.user.gas) > 0 => WindowResult.gas = window.user.gas
           /\ (WindowResult.electricity = window.public.electricity)
                  <=> (Len(window.user.electricity) = 0)
           /\ Len(window.user.electricity) > 0
                  => WindowResult.electricity = window.user.electricity

C8_Witness ==
    /\ is_authenticated /\ AfterFallback
    /\ Len(window.user.electricity) = 0 /\ Len(window.user.gas) > 0
    /\ Len(window.public.electricity) > 0 /\ Len(window.public.gas) > 0
    /\ WindowResult.electricity = window.public.electricity
    /\ WindowResult.gas = window.user.gas

\* C9: in an unauthenticated session no cycle calls user_prices,
\* month_summary or invoices, a window's prices are the reply of the one
\* public prices call made for it, and a snapshot has month_summary and
\* invoices None.
C9_UnauthenticatedPublicOnly ==
    ~is_authenticated
        => /\ \A i \in DOMAIN calls :
                 calls[i].fn \notin {"user_prices", "month_summary", "invoices"}
           /\ AfterFallback
                 => /\ window.calls = <<PricesCall(window.start, window.end)>>
                    /\ WindowResult = window.public
           /\ data # None
                 => data[DATA_MONTH_SUMMARY] = None /\ data[DATA_INVOICES] = None

C9_Witness ==
    /\ ~is_authenticated
    /\ pc = "idle" /\ outcome = "returned"
    /\ Len(calls) = 2
    /\ Len(data[DATA_ELECTRICITY]) > 0 /\ Len(data[DATA_GAS]) > 0
    /\ data[DATA_MONTH_SUMMARY] = None /\ data[DATA_INVOICES] = None

\* every price of the series lies within the day d
WithinDay(series, d) ==
    \A i \in DOMAIN series : series[i].from \div SlotsPerDay = d

\* C10: a cycle that returned a snapshot made the fallback calls for
\* [today, today+1) and [today+1, today+2), in that order, and the
\* snapshot's electricity and gas series are the first window's series
\* followed by the second window's.
C10_TwoWindowsConcatenated ==
    (pc = "idle" /\ outcome = "returned")
        => /\ windows = << <<today, today + 1>>, <<today + 1, today + 2>> >>
           /\ WithinDay(prices_today.electricity, today)
           /\ WithinDay(prices_today.gas, today)
           /\ WithinDay(prices_tomorrow.electricity, today + 1)
           /\ WithinDay(prices_tomorrow.gas, today + 1)
           /\ data[DATA_ELECTRICITY] = prices_today.electricity \o prices_tomorrow.electricity
           /\ data[DATA_GAS] = prices_today.gas \o prices_tomorrow.gas

C10_Witness ==
    /\ pc = "idle" /\ outcome = "returned"
    /\ Len(prices_today.electricity) > 0 /\ Len(prices_tomorrow.electricity) > 0
    /\ Len(prices_today.gas) > 0 /\ Len(prices_tomorrow.gas) > 0
    /\ Len(data[DATA_ELECTRICITY]) = 2 * SlotsPerDay
    /\ data[DATA_ELECTRICITY][1].from < data[DATA_ELECTRICITY][Len(data[DATA_ELECTRICITY])].from

\* the access token and the refresh token stored in the entry data e
StoredTokens(e) ==
    [k \in {CONF_ACCESS_TOKEN, CONF_TOKEN} \cap DOMAIN e |-> e[k]]

\* C11: a step that changes the access token or the refresh token stored in
\* the config entry is the renewal step of a cycle whose renew_token call
\* succeeded, and it stores the pair renew_token returned; every other step
\* leaves the stored tokens unchanged.
C11_TokensChangeOnlyOnRenewal ==
    [][StoredTokens(entryData)' # StoredTokens(entryData)
         => /\ pc = "renew" /\ renewal' = "ok"
            /\ calls' = Append(calls, RenewTokenCall)
            /\ StoredTokens(entryData)'
                 = (CONF_ACCESS_TOKEN :> updated_tokens'.authToken)
                   @@ (CONF_TOKEN :> updated_tokens'.refreshToken)]_vars

C11_Witness ==
    /\ pc = "idle" /\ cycle = 2
    /\ renewal = "AuthException" /\ outcome = "ConfigEntryAuthFailed"
    /\ StoredTokens(entryData) = (CONF_ACCESS_TOKEN :> "t1") @@ (CONF_TOKEN :> "r1")

Failures == {"UpdateFailed", "ConfigEntryAuthFailed"}

BothNonEmpty(p) == Len(p.gas) > 0 /\ Len(p.electricity) > 0

\* C13: in a fallback call of an authenticated session user_prices is called
\* first and prices at most once after it; when both user series are
\* non-empty the user prices are returned as fetched and prices is not
\* called; prices is called only when a user series is empty, and is
\* called whenever user_prices returned an empty series.
C13_PublicOnlyWhenUserEmpty ==
    (is_authenticated /\ window # NoWindow)
        => /\ Len(window.calls) \in {1, 2}
           /\ window.calls[1] = UserPricesCall(window.start, site_reference)
           /\ Len(window.calls) = 2
                 => /\ window.calls[2] = PricesCall(window.start, window.end)
                    /\ ~BothNonEmpty(window.user)
           /\ BothNonEmpty(window.user)
                 => /\ Len(window.calls) = 1
                    /\ window.public = NoPrices
                    /\ AfterFallback => WindowResult = window.user
           /\ (AfterFallback /\ ~BothNonEmpty(window.user)) => Len(window.calls) = 2

C13_Witness ==
    /\ is_authenticated /\ AfterFallback
    /\ BothNonEmpty(window.user)
    /\ window.calls = <<UserPricesCall(window.start, site_reference)>>
    /\ WindowResult = window.user

\* the place of the API call c in the order first-window prices (user, then
\* public), second-window prices, month summary, invoices, renew_token for
\* a cycle of the day d; -1 for a call that is none of these
CallRank(c, d) ==
    IF c.fn = "user_prices" THEN (IF c.start = d THEN 0 ELSE IF c.start = d + 1 THEN 2 ELSE -1)
    ELSE IF c.fn = "prices"
    THEN (IF c.start = d /\ c.end = d + 1 THEN 1
          ELSE IF c.start = d + 1 /\ c.end = d + 2 THEN 3 ELSE -1)
    ELSE IF c.fn = "month_summary" THEN 4
    ELSE IF c.fn = "invoices" THEN 5
    ELSE IF c.fn = "renew_token" THEN 6
    ELSE -1

\* the calls cs are calls of a cycle of the day d, each made once, in order:
\* the ranks are valid and each is below the next
InOrder(cs, d) ==
    \A i \in DOMAIN cs :
        /\ CallRank(cs[i], d) >= 0
        /\ i < Len(cs) => CallRank(cs[i], d) < CallRank(cs[i + 1], d)

CallRanks(cs, d) == {CallRank(cs[i], d) : i \in DOMAIN cs}

\* C14: the API calls of a cycle are made in the order first-window prices,
\* second-window prices, month summary, invoices, each at most once; a try
\* body that reaches its end has fetched both windows (and, authenticated,
\* the month summary and the invoices); once a call has raised, the only
\* call still made in the cycle is one renew_token call, and only after an
\* AuthException.
C14_CallOrder ==
    [][/\ calls' # calls
             => /\ InOrder(calls', today')
                /\ 6 \in CallRanks(calls', today') => exc'.kind = "AuthException"
       /\ (pc # "return" /\ pc' = "return")
             => /\ CallRanks(calls', today') \cap {0, 1} # {}
                /\ CallRanks(calls', today') \cap {2, 3} # {}
                /\ is_authenticated => {4, 5} \subseteq CallRanks(calls', today')
       /\ (exc # NoExc /\ pc # "idle")
             => \/ calls' = calls
                \/ /\ exc.kind = "AuthException" /\ pc = "renew"
                   /\ calls' = Append(calls, RenewTokenCall)
      ]_vars

C14_Witness ==
    /\ pc = "idle" /\ is_authenticated
    /\ Len(calls) = 7
    /\ calls[6].fn = "invoices" /\ calls[7].fn = "renew_token"
    /\ exc.kind = "AuthException"

\* C15: every step of a cycle that does not end it, and every step that
\* ends it with UpdateFailed or ConfigEntryAuthFailed, leaves the cached
\* snapshot as it is: a failed cycle ends with the snapshot it started with,
\* whichever fetch failed.
C15_FailedCycleKeepsSnapshot ==
    [][(pc # "idle" /\ (pc' # "idle" \/ outcome' \in Failures)) => data' = data]_vars

C15_Witness ==
    /\ pc = "idle" /\ cycle = 2
    /\ outcome = "UpdateFailed" /\ IsGenericRequest(exc)
    /\ Len(calls) >= 3 /\ calls[Len(calls)].fn = "invoices"
    /\ data # None /\ FromCycle(data, 1)
    /\ Len(data[DATA_ELECTRICITY]) > 0

\* C16: a cycle that has ended has returned a snapshot or raised
\* UpdateFailed or ConfigEntryAuthFailed, whichever API call raised which
\* exception.
C16_ThreeOutcomes ==
    (pc = "idle" /\ cycle > 0)
        => outcome \in {"returned", "UpdateFailed", "ConfigEntryAuthFailed"}

\* C17: a step that changes the config entry's data keeps every field other
\* than the access token and the refresh token, site_reference among them,
\* with its value.
C17_RenewalKeepsOtherFields ==
    [][entryData' # entryData
         => \A k \in DOMAIN entryData \ {CONF_ACCESS_TOKEN, CONF_TOKEN} :
               k \in DOMAIN entryData' /\ entryData'[k] = entryData[k]]_vars

====
